---- MODULE Spec2Model ----
(***************************************************************************)
(* Model of the asset index query compiler of shelf.nu:                    *)
(*   app/modules/asset/utils.server.ts            (parseFilters, ...)      *)
(*   app/modules/asset/advanced-index-query.server.ts                      *)
(*                                  (generateWhereClause, parseSorting...) *)
(*                                                                         *)
(* Strings are sequences of atoms.  An atom is a TLA+ string standing for  *)
(* a piece of text that holds none of the characters the code looks for    *)
(* (':' ',' whitespace, the double quote), or for one such character.      *)
(* JavaScript values are tagged records (VStr, VNum, VNaN, VBool, VArr,    *)
(* VNull, VUndef).  A Prisma.Sql value is a record of the statement text   *)
(* (atoms, "?" at each bound parameter) and the list of bound values.      *)
(***************************************************************************)
EXTENDS Integers, Sequences, FiniteSets, TLC

VARIABLES pc, whereCall, parseCall, sortCall, selectCall, inputCall, noteCall,
          valueField

vars == <<pc, whereCall, parseCall, sortCall, selectCall, inputCall, noteCall, valueField>>

(***************************************************************************)
(* Bounds of the model.                                                    *)
(***************************************************************************)
MaxFilters == 2
MaxArr == 3
MaxPairs == 2
MaxSort == 2
MaxEdits == 3

(***************************************************************************)
(* Atoms and JavaScript values.                                            *)
(***************************************************************************)
DQ == "\""
SP == " "
COLON == ":"
COMMA == ","

VStr(s) == [k |-> "string", s |-> s]
VNum(n) == [k |-> "number", n |-> n]
VNaN == [k |-> "NaN"]
VBool(b) == [k |-> "boolean", b |-> b]
VArr(items) == [k |-> "array", items |-> items]
VNull == [k |-> "null"]
VUndef == [k |-> "undefined"]

IsArray(v) == v.k = "array"

RECURSIVE Concat(_)
Concat(ss) == IF ss = <<>> THEN <<>> ELSE Head(ss) \o Concat(Tail(ss))

RECURSIVE JoinWith(_, _)
JoinWith(ss, sep) ==
  IF ss = <<>> THEN <<>>
  ELSE IF Len(ss) = 1 THEN ss[1]
  ELSE ss[1] \o sep \o JoinWith(Tail(ss), sep)

\* String.prototype.split with a one-character separator.
RECURSIVE SplitOn(_, _)
SplitOn(s, d) ==
  IF \A i \in 1..Len(s) : s[i] # d THEN <<s>>
  ELSE LET i == CHOOSE j \in 1..Len(s) :
                  s[j] = d /\ \A m \in 1..(j - 1) : s[m] # d
       IN <<SubSeq(s, 1, i - 1)>> \o SplitOn(SubSeq(s, i + 1, Len(s)), d)

IsSpace(a) == a \in {" ", "\t"}

\* String.prototype.trim
RECURSIVE Trim(_)
Trim(s) ==
  IF s = <<>> THEN s
  ELSE IF IsSpace(s[1]) THEN Trim(Tail(s))
  ELSE IF IsSpace(s[Len(s)]) THEN Trim(SubSeq(s, 1, Len(s) - 1))
  ELSE s

\* s.split(/\s+/).filter(Boolean): the maximal runs of non-space atoms.
RECURSIVE Words(_)
Words(s) ==
  IF s = <<>> THEN <<>>
  ELSE IF IsSpace(s[1]) THEN Words(Tail(s))
  ELSE LET n == CHOOSE j \in 1..Len(s) :
                  /\ \A m \in 1..j : ~IsSpace(s[m])
                  /\ (j = Len(s) \/ IsSpace(s[j + 1]))
       IN <<SubSeq(s, 1, n)>> \o Words(SubSeq(s, n + 1, Len(s)))

\* The text a template literal `${v}` gives for a value.
NumAtom(n) == CASE n = 0 -> "0" [] n = 1 -> "1" [] n = 2 -> "2" [] n = 3 -> "3"
                [] n = 4 -> "4" [] n = 5 -> "5" [] n = 6 -> "6" [] n = 7 -> "7"
                [] n = 8 -> "8" [] n = 9 -> "9" [] OTHER -> "<number>"

RECURSIVE JsToString(_)
JsToString(v) ==
  CASE v.k = "string" -> v.s
    [] v.k = "number" -> <<NumAtom(v.n)>>
    [] v.k = "NaN" -> <<"NaN">>
    [] v.k = "boolean" -> IF v.b THEN <<"true">> ELSE <<"false">>
    [] v.k = "array" ->
         JoinWith([i \in 1..Len(v.items) |-> JsToString(v.items[i])], <<COMMA>>)
    [] v.k = "null" -> <<"null">>
    [] OTHER -> <<"undefined">>

(***************************************************************************)
(* Prisma.sql, Prisma.raw, Prisma.join and Prisma.empty.                   *)
(***************************************************************************)
SqlText(t) == [text |-> t, values |-> <<>>]
SqlParam(v) == [text |-> <<"?">>, values |-> <<v>>]
SqlRaw(s) == [text |-> s, values |-> <<>>]
SqlEmpty == [text |-> <<>>, values |-> <<>>]

RECURSIVE SqlConcat(_)
SqlConcat(parts) ==
  IF parts = <<>> THEN SqlEmpty
  ELSE LET rest == SqlConcat(Tail(parts))
       IN [text |-> Head(parts).text \o rest.text,
           values |-> Head(parts).values \o rest.values]

\* Prisma.join(values): one bound parameter per element, separated by ",".
SqlJoin(items) ==
  [text |-> JoinWith([i \in 1..Len(items) |-> <<"?">>], <<COMMA>>),
   values |-> items]

\* a."<field>" with the field name inlined by Prisma.raw.
Column(field) == SqlConcat(<<SqlText(<<"a.", DQ>>), SqlRaw(field), SqlText(<<DQ>>)>>)

(***************************************************************************)
(* Where-clause compiler: generateWhereClause and its add*Filter helpers.  *)
(***************************************************************************)
addStringFilter(whereClause, field, operator, value) ==
  CASE operator = <<"is">> ->
         SqlConcat(<<whereClause, SqlText(<<"AND">>), Column(field),
                     SqlText(<<"=">>), SqlParam(value)>>)
    [] operator = <<"isNot">> ->
         SqlConcat(<<whereClause, SqlText(<<"AND">>), Column(field),
                     SqlText(<<"!=">>), SqlParam(value)>>)
    [] OTHER -> whereClause

\* Mutant of addEnumFilter: "in" without the Array.isArray guard.
addEnumFilter_NoArrayGuard(whereClause, field, operator, value) ==
  CASE operator = <<"is">> ->
         SqlConcat(<<whereClause, SqlText(<<"AND">>), Column(field),
                     SqlText(<<"=">>), SqlParam(value)>>)
    [] operator = <<"isNot">> ->
         SqlConcat(<<whereClause, SqlText(<<"AND">>), Column(field),
                     SqlText(<<"!=">>), SqlParam(value)>>)
    [] operator = <<"in">> ->
         SqlConcat(<<whereClause, SqlText(<<"AND">>), Column(field),
                     SqlText(<<"IN", "(">>),
                     IF IsArray(value) THEN SqlJoin(value.items) ELSE SqlParam(value),
                     SqlText(<<")">>)>>)
    [] OTHER -> whereClause

addEnumFilter(whereClause, field, operator, value) ==
  CASE operator = <<"is">> ->
         SqlConcat(<<whereClause, SqlText(<<"AND">>), Column(field),
                     SqlText(<<"=">>), SqlParam(value)>>)
    [] operator = <<"isNot">> ->
         SqlConcat(<<whereClause, SqlText(<<"AND">>), Column(field),
                     SqlText(<<"!=">>), SqlParam(value)>>)
    [] operator = <<"in">> ->
         IF IsArray(value)
         THEN SqlConcat(<<whereClause, SqlText(<<"AND">>), Column(field),
                          SqlText(<<"IN", "(">>), SqlJoin(value.items),
                          SqlText(<<")">>)>>)
         ELSE whereClause
    [] OTHER -> whereClause

\* Mutant of addTextFilter: the pattern inlined into the text, not bound.
addTextFilter_InlinedValue(whereClause, field, operator, value) ==
  CASE operator = <<"contains">> ->
         SqlConcat(<<whereClause, SqlText(<<"AND">>), Column(field),
                     SqlText(<<"ILIKE">>),
                     SqlRaw(<<"'%">> \o JsToString(value) \o <<"%'">>)>>)
    [] OTHER -> whereClause

addTextFilter(whereClause, field, operator, value) ==
  CASE operator = <<"contains">> ->
         SqlConcat(<<whereClause, SqlText(<<"AND">>), Column(field),
                     SqlText(<<"ILIKE">>),
                     SqlParam(VStr(<<"%">> \o JsToString(value) \o <<"%">>))>>)
    [] OTHER -> whereClause

NumberOperatorSql(operator) ==
  CASE operator = <<"is">> -> "="
    [] operator = <<"isNot">> -> "!="
    [] operator = <<"gt">> -> ">"
    [] operator = <<"lt">> -> "<"
    [] operator = <<"gte">> -> ">="
    [] operator = <<"lte">> -> "<="
    [] OTHER -> ""

addNumberFilter(whereClause, field, operator, value) ==
  CASE NumberOperatorSql(operator) # "" ->
         SqlConcat(<<whereClause, SqlText(<<"AND">>), Column(field),
                     SqlText(<<NumberOperatorSql(operator)>>), SqlParam(value)>>)
    [] operator = <<"between">> ->
         IF IsArray(value) /\ Len(value.items) = 2
         THEN SqlConcat(<<whereClause, SqlText(<<"AND">>), Column(field),
                          SqlText(<<"BETWEEN">>), SqlParam(value.items[1]),
                          SqlText(<<"AND">>), SqlParam(value.items[2])>>)
         ELSE whereClause
    [] OTHER -> whereClause

\* Mutant of addBooleanFilter: the inequality instead of the equality.
addBooleanFilter_NotEqual(whereClause, field, value) ==
  SqlConcat(<<whereClause, SqlText(<<"AND">>), Column(field),
              SqlText(<<"!=">>), SqlParam(value)>>)

addBooleanFilter(whereClause, field, value) ==
  SqlConcat(<<whereClause, SqlText(<<"AND">>), Column(field),
              SqlText(<<"=">>), SqlParam(value)>>)

DateColumn(field) ==
  SqlConcat(<<SqlText(<<"DATE", "(">>), Column(field), SqlText(<<")">>)>>)

addDateFilter(whereClause, field, operator, value) ==
  CASE operator = <<"is">> ->
         SqlConcat(<<whereClause, SqlText(<<"AND">>), DateColumn(field),
                     SqlText(<<"=">>), SqlParam(value)>>)
    [] operator = <<"isNot">> ->
         SqlConcat(<<whereClause, SqlText(<<"AND">>), DateColumn(field),
                     SqlText(<<"!=">>), SqlParam(value)>>)
    [] operator = <<"before">> ->
         SqlConcat(<<whereClause, SqlText(<<"AND">>), Column(field),
                     SqlText(<<"<">>), SqlParam(value)>>)
    [] operator = <<"after">> ->
         SqlConcat(<<whereClause, SqlText(<<"AND">>), Column(field),
                     SqlText(<<">">>), SqlParam(value)>>)
    [] operator = <<"between">> ->
         IF IsArray(value) /\ Len(value.items) = 2
         THEN SqlConcat(<<whereClause, SqlText(<<"AND">>), Column(field),
                          SqlText(<<"BETWEEN">>), SqlParam(value.items[1]),
                          SqlText(<<"AND">>), SqlParam(value.items[2])>>)
         ELSE whereClause
    [] OTHER -> whereClause

\* The body of filters.forEach: the switch on the filter's type.
addFilter(whereClause, filter) ==
  CASE filter.type = "string" ->
         addStringFilter(whereClause, filter.name, filter.operator, filter.value)
    [] filter.type = "enum" ->
         addEnumFilter(whereClause, filter.name, filter.operator, filter.value)
    [] filter.type = "text" ->
         addTextFilter(whereClause, filter.name, filter.operator, filter.value)
    [] filter.type = "number" ->
         addNumberFilter(whereClause, filter.name, filter.operator, filter.value)
    [] filter.type = "boolean" ->
         addBooleanFilter(whereClause, filter.name, filter.value)
    [] filter.type = "date" ->
         addDateFilter(whereClause, filter.name, filter.operator, filter.value)
    [] OTHER -> whereClause

RECURSIVE addFilters(_, _)
addFilters(whereClause, filters) ==
  IF filters = <<>> THEN whereClause
  ELSE addFilters(addFilter(whereClause, Head(filters)), Tail(filters))

OrgCondition == <<"WHERE", "a.", DQ, "organizationId", DQ, "=", "?">>

SearchCondition ==
  <<"AND", "(", "to_tsvector", "(", "'english'", COMMA, "a.", DQ, "title", DQ,
    "||", "' '", "||", "COALESCE", "(", "a.", DQ, "description", DQ, COMMA,
    "''", ")", ")", "@@", "to_tsquery", "(", "'english'", COMMA, "?", ")", ")">>

\* Mutant of searchQuery: the contributions joined with " & ".
searchQuery_AndJoined(words) ==
  JoinWith([i \in 1..Len(words) |->
              words[i] \o <<COLON, "*", SP, "|", SP>> \o words[i]],
           <<SP, "&", SP>>)

\* words.map((word) => `${word}:* | ${word}`).join(" | ")
searchQuery(words) ==
  JoinWith([i \in 1..Len(words) |->
              words[i] \o <<COLON, "*", SP, "|", SP>> \o words[i]],
           <<SP, "|", SP>>)

addSearch(whereClause, search) ==
  IF search.k = "string" /\ search.s # <<>>
  THEN LET words == Words(Trim(search.s))
       IN IF Len(words) > 0
          THEN [text |-> whereClause.text \o SearchCondition,
                values |-> whereClause.values \o <<VStr(searchQuery(words))>>]
          ELSE whereClause
  ELSE whereClause

generateWhereClause(organizationId, search, filters) ==
  addFilters(
    addSearch([text |-> OrgCondition, values |-> <<VStr(<<organizationId>>)>>],
              search),
    filters)

(***************************************************************************)
(* Filter parser: parseFilters, getFilterFieldType, parseFilterValue.      *)
(***************************************************************************)
VTypeError == [k |-> "TypeError"]

DigitAtoms == {"0", "1", "2", "3", "4", "5", "6", "7", "8", "9"}

DigitValue(a) ==
  CASE a = "0" -> 0 [] a = "1" -> 1 [] a = "2" -> 2 [] a = "3" -> 3 [] a = "4" -> 4
    [] a = "5" -> 5 [] a = "6" -> 6 [] a = "7" -> 7 [] a = "8" -> 8 [] OTHER -> 9

RECURSIVE DecimalValue(_)
DecimalValue(s) ==
  IF s = <<>> THEN 0
  ELSE 10 * DecimalValue(SubSeq(s, 1, Len(s) - 1)) + DigitValue(s[Len(s)])

\* Number(v) for undefined and for strings of decimal digits and other text.
Number(v) ==
  IF v.k # "string" THEN VNaN
  ELSE LET t == Trim(v.s)
       IN IF \A i \in 1..Len(t) : t[i] \in DigitAtoms
          THEN VNum(DecimalValue(t))
          ELSE VNaN

LowerAtom(a) ==
  CASE a = "TRUE" -> "true" [] a = "True" -> "true" [] a = "FALSE" -> "false"
    [] a = "Pen" -> "pen"
    [] OTHER -> a

toLowerCase(s) == [i \in 1..Len(s) |-> LowerAtom(s[i])]

getFilterFieldType(fieldName) ==
  CASE fieldName = <<"id">> -> "string"
    [] fieldName = <<"status">> -> "enum"
    [] fieldName = <<"description">> -> "text"
    [] fieldName = <<"valuation">> -> "number"
    [] fieldName = <<"availableToBook">> -> "boolean"
    [] fieldName = <<"createdAt">> -> "date"
    [] OTHER -> "string"

\* value.split(","): a TypeError when value is undefined.
splitComma(value) ==
  LET parts == SplitOn(value.s, COMMA)
  IN [i \in 1..Len(parts) |-> VStr(parts[i])]

parseFilterValue(field, operator, value) ==
  CASE field = <<"valuation">> ->
         IF operator = <<"between">>
         THEN IF value.k = "undefined" THEN VTypeError
              ELSE LET parts == splitComma(value)
                   IN VArr([i \in 1..Len(parts) |-> Number(parts[i])])
         ELSE Number(value)
    [] field = <<"availableToBook">> ->
         IF value.k = "undefined" THEN VTypeError
         ELSE VBool(toLowerCase(value.s) = <<"true">>)
    [] field = <<"createdAt">> ->
         IF operator = <<"between">>
         THEN IF value.k = "undefined" THEN VTypeError ELSE VArr(splitComma(value))
         ELSE value
    [] field = <<"status">> ->
         IF operator = <<"in">>
         THEN IF value.k = "undefined" THEN VTypeError ELSE VArr(splitComma(value))
         ELSE value
    [] OTHER -> value

\* The body of searchParams.forEach for one key/value pair.
parseFilter(key, value) ==
  LET parts == SplitOn(value, COLON)
      operator == parts[1]
      filterValue == IF Len(parts) >= 2 THEN VStr(parts[2]) ELSE VUndef
  IN [name |-> key,
      type |-> getFilterFieldType(key),
      operator |-> operator,
      value |-> parseFilterValue(key, operator, filterValue)]

\* The list returned, or threw when a parseFilterValue call raised.
parseFilters(pairs) ==
  LET filters == [i \in 1..Len(pairs) |-> parseFilter(pairs[i].key, pairs[i].value)]
  IN IF \E i \in 1..Len(filters) : filters[i].value = VTypeError
     THEN [threw |-> TRUE, filters |-> <<>>]
     ELSE [threw |-> FALSE, filters |-> filters]

(***************************************************************************)
(* getLocationUpdateNoteContent.  A location is undefined, null or a       *)
(* record of its id and name; the message is a sequence of atoms.          *)
(***************************************************************************)
VLocation(id, name) == [k |-> "location", id |-> id, name |-> name]

\* **${firstName.trim()} ${lastName.trim()}**
NoteAuthor(args) ==
  <<"**">> \o Trim(args.firstName) \o <<SP>> \o Trim(args.lastName) \o <<"**">>

\* **${assetName.trim()}**
NoteAsset(args) == <<"**">> \o Trim(args.assetName) \o <<"**">>

\* **[${location.name.trim()}](/locations/${location.id})**
NoteLocation(location) ==
  <<"**[">> \o Trim(location.name) \o <<"](/locations/">> \o location.id \o <<")**">>

\* The same with currentLocation?.name.trim() and currentLocation?.id.
NoteOptionalLocation(location) ==
  IF location.k = "location" THEN NoteLocation(location)
  ELSE <<"**[", "undefined", "](/locations/", "undefined", ")**">>

UpdatedMessage(args) ==
  NoteAuthor(args) \o <<SP, "updated the location of", SP>> \o NoteAsset(args)
  \o <<SP, "from", SP>> \o NoteLocation(args.currentLocation)
  \o <<SP, "to", SP>> \o NoteLocation(args.newLocation)

SetMessage(args) ==
  NoteAuthor(args) \o <<SP, "set the location of", SP>> \o NoteAsset(args)
  \o <<SP, "to", SP>> \o NoteLocation(args.newLocation)

RemovedMessage(args) ==
  NoteAuthor(args) \o <<SP, "removed", SP, SP>> \o NoteAsset(args)
  \o <<SP, "from location", SP>> \o NoteOptionalLocation(args.currentLocation)

\* Mutant of getLocationUpdateNoteContent: the removal is tested first, so
\* the other two messages override it.
getLocationUpdateNoteContent_RemovalFirst(args) ==
  LET hasCurrent == args.currentLocation.k = "location"
      hasNew == args.newLocation.k = "location"
      m1 == IF args.isRemoving = VBool(TRUE) \/ ~hasNew
            THEN RemovedMessage(args) ELSE <<>>
      m2 == IF hasCurrent /\ hasNew THEN UpdatedMessage(args) ELSE m1
  IN IF hasNew /\ ~hasCurrent THEN SetMessage(args) ELSE m2

getLocationUpdateNoteContent(args) ==
  LET hasCurrent == args.currentLocation.k = "location"
      hasNew == args.newLocation.k = "location"
      m1 == IF hasCurrent /\ hasNew THEN UpdatedMessage(args) ELSE <<>>
      m2 == IF hasNew /\ ~hasCurrent THEN SetMessage(args) ELSE m1
  IN IF args.isRemoving = VBool(TRUE) \/ ~hasNew
     THEN RemovedMessage(args) ELSE m2

(***************************************************************************)
(* getAssetsWhereInput.  A Prisma where input is a record whose fields are *)
(* the keys that are set.  currentSearchParams is undefined, null, or the  *)
(* string, given by what is read from it: whether it is empty, the value   *)
(* of searchParams.get("status") and the values getParamsValues returns    *)
(* (id lists are undefined or arrays of strings).                          *)
(***************************************************************************)
\* where.key = value
SetKey(where, key, value) ==
  [x \in DOMAIN where \cup {key} |-> IF x = key THEN value ELSE where[x]]

\* ids.includes(id)
includes(ids, id) == \E i \in 1..Len(ids) : ids[i] = id

\* ids && ids.length > 0
NonEmptyIds(ids) == ids.k = "array" /\ Len(ids.items) > 0

\* where.OR ?? []
OrList(where) == IF "OR" \in DOMAIN where THEN where.OR ELSE <<>>

\* Mutant of whereStatus: "ALL" is a status like any other.
whereStatus_KeepAll(where, searchParams) ==
  IF searchParams.status.k = "string" /\ searchParams.status.s # <<>>
  THEN SetKey(where, "status", searchParams.status.s) ELSE where

whereStatus(where, searchParams) ==
  LET status == IF searchParams.status = VStr(<<"ALL">>) THEN VNull
                ELSE searchParams.status
  IN IF status.k = "string" /\ status.s # <<>>
     THEN SetKey(where, "status", status.s) ELSE where

whereSearch(where, search) ==
  IF search.k = "string" /\ search.s # <<>>
  THEN SetKey(where, "title",
              [contains |-> Trim(toLowerCase(search.s)), mode |-> "insensitive"])
  ELSE where

\* Mutant of whereCategories: the OR list replaces the where input.
whereCategories_ReplaceWhere(where, categoriesIds) ==
  IF NonEmptyIds(categoriesIds)
  THEN IF includes(categoriesIds.items, "uncategorized")
       THEN [OR |-> <<[categoryId |-> [in |-> categoriesIds.items]],
                      [categoryId |-> VNull]>>]
       ELSE SetKey(where, "categoryId", [in |-> categoriesIds.items])
  ELSE where

whereCategories(where, categoriesIds) ==
  IF NonEmptyIds(categoriesIds)
  THEN IF includes(categoriesIds.items, "uncategorized")
       THEN SetKey(where, "OR", <<[categoryId |-> [in |-> categoriesIds.items]],
                                  [categoryId |-> VNull]>>)
       ELSE SetKey(where, "categoryId", [in |-> categoriesIds.items])
  ELSE where

whereTags(where, tagsIds) ==
  IF NonEmptyIds(tagsIds)
  THEN IF includes(tagsIds.items, "untagged")
       THEN SetKey(where, "OR",
                   OrList(where) \o <<[tags |-> [some |-> [id |-> [in |-> tagsIds.items]]]],
                                      [tags |-> [none |-> <<>>]]>>)
       ELSE SetKey(where, "tags", [some |-> [id |-> [in |-> tagsIds.items]]])
  ELSE where

whereLocations(where, locationIds) ==
  IF NonEmptyIds(locationIds)
  THEN IF includes(locationIds.items, "without-location")
       THEN SetKey(where, "OR",
                   OrList(where) \o <<[locationId |-> [in |-> locationIds.items]],
                                      [locationId |-> VNull]>>)
       ELSE SetKey(where, "location", [id |-> [in |-> locationIds.items]])
  ELSE where

whereTeamMembers(where, teamMemberIds) ==
  IF NonEmptyIds(teamMemberIds)
  THEN LET ids == teamMemberIds.items
       IN SetKey(where, "OR",
            OrList(where)
            \o <<[custody |-> [teamMemberId |-> [in |-> ids]]],
                 [custody |-> [custodian |-> [userId |-> [in |-> ids]]]],
                 [bookings |-> [some |-> [custodianTeamMemberId |-> [in |-> ids]]]],
                 [bookings |-> [some |-> [custodianUserId |-> [in |-> ids]]]]>>
            \o (IF includes(ids, "without-custody")
                THEN <<[custody |-> VNull]>> ELSE <<>>))
  ELSE where

getAssetsWhereInput(organizationId, currentSearchParams) ==
  LET where == [organizationId |-> organizationId]
  IN IF currentSearchParams.k # "string" \/ currentSearchParams.empty
     THEN where
     ELSE LET paramsValues == currentSearchParams.paramsValues
          IN whereTeamMembers(
               whereLocations(
                 whereTags(
                   whereCategories(
                     whereStatus(whereSearch(where, paramsValues.search),
                                 currentSearchParams),
                     paramsValues.categoriesIds),
                   paramsValues.tagsIds),
                 paramsValues.locationIds),
               paramsValues.teamMemberIds)

(***************************************************************************)
(* ValueField: the two bounds of a between filter and their validation.    *)
(* A bound is a text; a date text is <<"2024-01-0", d>> for a day d.       *)
(***************************************************************************)
\* parseFloat(text) for texts of decimal digits and texts that are no number.
parseFloat(text) ==
  IF text # <<>> /\ \A i \in 1..Len(text) : text[i] \in DigitAtoms
  THEN VNum(DecimalValue(text)) ELSE VNaN

\* new Date(text).getTime(): the day of a date text, NaN for another text.
getTime(text) ==
  IF Len(text) = 2 /\ text[1] = "2024-01-0" /\ text[2] \in DigitAtoms
  THEN VNum(DigitValue(text[2])) ELSE VNaN

\* Array.isArray(filter.value) ? filter.value : ["", ""]
initialLocalValue(filter) ==
  IF IsArray(filter.value)
  THEN [i \in 1..Len(filter.value.items) |-> filter.value.items[i].s]
  ELSE <<<<>>, <<>>>>

\* Mutant of validateBetweenFilter: equal bounds are an error too.
validateBetweenFilter_StrictOrder(filter, localValue) ==
  LET start == localValue[1]
      end == localValue[2]
  IN IF filter.operator = <<"between">> /\ start # <<>> /\ end # <<>>
     THEN IF filter.type = "date"
          THEN IF /\ getTime(start) # VNaN /\ getTime(end) # VNaN
                  /\ getTime(start).n >= getTime(end).n
               THEN VStr(<<"Start date must be before or equal to end date">>)
               ELSE VNull
          ELSE IF filter.type = "number"
          THEN IF /\ parseFloat(start) # VNaN /\ parseFloat(end) # VNaN
                  /\ parseFloat(start).n >= parseFloat(end).n
               THEN VStr(<<"Start value must be less than or equal to end value">>)
               ELSE VNull
          ELSE VNull
     ELSE VNull

\* The error validateBetweenFilter sets.
validateBetweenFilter(filter, localValue) ==
  LET start == localValue[1]
      end == localValue[2]
  IN IF filter.operator = <<"between">> /\ start # <<>> /\ end # <<>>
     THEN IF filter.type = "date"
          THEN IF /\ getTime(start) # VNaN /\ getTime(end) # VNaN
                  /\ getTime(start).n > getTime(end).n
               THEN VStr(<<"Start date must be before or equal to end date">>)
               ELSE VNull
          ELSE IF filter.type = "number"
          THEN IF /\ parseFloat(start) # VNaN /\ parseFloat(end) # VNaN
                  /\ parseFloat(start).n > parseFloat(end).n
               THEN VStr(<<"Start value must be less than or equal to end value">>)
               ELSE VNull
          ELSE VNull
     ELSE VNull

(***************************************************************************)
(* Sort compiler: parseSortingOptions and generateCustomFieldSelect.       *)
(***************************************************************************)
\* Mutant of directAssetFields: valuation sorted by an alias nothing selects.
directAssetFields_ValuationAlias ==
  [id |-> "assetId", name |-> "assetTitle", valuation |-> "assetValuation",
   status |-> "assetStatus", description |-> "assetDescription",
   createdAt |-> "assetCreatedAt", availableToBook |-> "assetAvailableToBook"]

directAssetFields ==
  [id |-> "assetId", name |-> "assetTitle", valuation |-> "assetValue",
   status |-> "assetStatus", description |-> "assetDescription",
   createdAt |-> "assetCreatedAt", availableToBook |-> "assetAvailableToBook"]

\* Members every object literal inherits from Object.prototype.
ObjectPrototypeKeys ==
  {"constructor", "toString", "toLocaleString", "valueOf", "hasOwnProperty",
   "isPrototypeOf", "propertyIsEnumerable", "__proto__"}

\* field.name in directAssetFields: own and inherited properties.
InDirectAssetFields(name) ==
  Len(name) = 1 /\ name[1] \in (DOMAIN directAssetFields \cup ObjectPrototypeKeys)

\* directAssetFields[field.name], as the template literal prints it.
DirectColumnName(name) ==
  IF name[1] \in DOMAIN directAssetFields
  THEN directAssetFields[name[1]]
  ELSE "function () { [native code] }"

\* s.split(":") destructured into name, direction and fieldType.
SortField(s) ==
  LET parts == SplitOn(s, COLON)
  IN [name |-> parts[1],
      direction |-> IF Len(parts) >= 2 THEN VStr(parts[2]) ELSE VUndef,
      fieldType |-> IF Len(parts) >= 3 THEN VStr(parts[3]) ELSE VUndef]

\* replace(/\s+/g, "_"): every run of whitespace becomes one "_".
RECURSIVE ReplaceSpaces(_)
ReplaceSpaces(s) ==
  IF s = <<>> THEN <<>>
  ELSE IF IsSpace(s[1])
       THEN IF Len(s) >= 2 /\ IsSpace(s[2]) THEN ReplaceSpaces(Tail(s))
            ELSE <<"_">> \o ReplaceSpaces(Tail(s))
       ELSE <<s[1]>> \o ReplaceSpaces(Tail(s))

startsWithCf(name) == name # <<>> /\ name[1] = "cf_"

CustomFieldAlias(customFieldName) == <<"cf_">> \o ReplaceSpaces(customFieldName)

\* One iteration of the loop over fields: what it adds to the three lists.
SortStep(field) ==
  LET dir == JsToString(field.direction)
      none == [parts |-> <<>>, sortings |-> <<>>, warnings |-> <<>>]
  IN CASE InDirectAssetFields(field.name) ->
            [none EXCEPT !.parts = <<<<DQ, DirectColumnName(field.name), DQ, SP>> \o dir>>]
       [] field.name = <<"kit">> ->
            [none EXCEPT !.parts = <<<<DQ, "kitName", DQ, SP>> \o dir>>]
       [] field.name = <<"category">> ->
            [none EXCEPT !.parts = <<<<DQ, "categoryName", DQ, SP>> \o dir>>]
       [] field.name = <<"location">> ->
            [none EXCEPT !.parts = <<<<DQ, "locationName", DQ, SP>> \o dir>>]
       [] field.name = <<"custody">> ->
            [none EXCEPT !.parts = <<<<"custody", "->>", "'name'", SP>> \o dir>>]
       [] startsWithCf(field.name) ->
            LET customFieldName == Tail(field.name)
                alias == CustomFieldAlias(customFieldName)
            IN [none EXCEPT
                  !.sortings = <<[name |-> customFieldName, valueKey |-> "raw",
                                  alias |-> alias, fieldType |-> field.fieldType]>>,
                  !.parts = <<alias \o <<SP>> \o dir>>]
       [] OTHER -> [none EXCEPT !.warnings = <<field.name>>]

RECURSIVE SortLoop(_)
SortLoop(fields) ==
  IF fields = <<>> THEN [parts |-> <<>>, sortings |-> <<>>, warnings |-> <<>>]
  ELSE LET first == SortStep(Head(fields))
           rest == SortLoop(Tail(fields))
       IN [parts |-> first.parts \o rest.parts,
           sortings |-> first.sortings \o rest.sortings,
           warnings |-> first.warnings \o rest.warnings]

parseSortingOptions(sortBy) ==
  LET loop == SortLoop([i \in 1..Len(sortBy) |-> SortField(sortBy[i])])
  IN [orderByParts |-> loop.parts,
      orderByClause |-> IF Len(loop.parts) > 0
                        THEN <<"ORDER BY", SP>> \o JoinWith(loop.parts, <<COMMA, SP>>)
                        ELSE <<>>,
      customFieldSortings |-> loop.sortings,
      warnings |-> loop.warnings]

\* The sub-select of one custom field sorting, up to its AS.
CustomFieldSubSelectBody(cf) ==
  SqlConcat(<<
    SqlText(<<"(", "SELECT", "CASE">>), SqlParam(cf.fieldType),
    SqlText(<<"WHEN", "'DATE'", "THEN", "(acfv.value->>'valueDate')::timestamp::text",
              "WHEN", "'NUMBER'", "THEN", "(acfv.value->>'raw')::numeric::text",
              "WHEN", "'BOOLEAN'", "THEN", "(acfv.value->>'valueBoolean')::boolean::text",
              "ELSE", "acfv.value->>'raw'", "END",
              "FROM", "public.", DQ, "AssetCustomFieldValue", DQ, "acfv",
              "JOIN", "public.", DQ, "CustomField", DQ, "cf",
              "ON", "acfv.", DQ, "customFieldId", DQ, "=", "cf.id",
              "WHERE", "acfv.", DQ, "assetId", DQ, "=", "a.id",
              "AND", "cf.name", "=">>),
    SqlParam(VStr(cf.name)),
    SqlText(<<")", "AS">>)>>)

\* Mutant of CustomFieldSubSelect: aliased by the name, whitespace kept.
CustomFieldSubSelect_AliasFromName(cf) ==
  SqlConcat(<<CustomFieldSubSelectBody(cf), SqlRaw(<<"cf_">> \o cf.name)>>)

\* The sub-select of one custom field sorting, aliased by Prisma.raw(cf.alias).
CustomFieldSubSelect(cf) ==
  SqlConcat(<<CustomFieldSubSelectBody(cf), SqlRaw(cf.alias)>>)

RECURSIVE SqlJoinSql(_)
SqlJoinSql(parts) ==
  IF parts = <<>> THEN SqlEmpty
  ELSE IF Len(parts) = 1 THEN parts[1]
  ELSE SqlConcat(<<parts[1], SqlText(<<COMMA>>), SqlJoinSql(Tail(parts))>>)

generateCustomFieldSelect(customFieldSortings) ==
  IF Len(customFieldSortings) = 0 THEN SqlEmpty
  ELSE SqlConcat(<<SqlText(<<COMMA>>),
                   SqlJoinSql([i \in 1..Len(customFieldSortings) |->
                                 CustomFieldSubSelect(customFieldSortings[i])])>>)

\* The select list of assetQueryFragment: <<column of Asset a, output alias>>,
\* with "" for the column of an expression that is not a column of a.
assetQueryFragment ==
  << <<"id", "assetId">>, <<"title", "assetTitle">>,
     <<"description", "assetDescription">>, <<"createdAt", "assetCreatedAt">>,
     <<"updatedAt", "assetUpdatedAt">>, <<"userId", "assetUserId">>,
     <<"mainImage", "assetMainImage">>,
     <<"mainImageExpiration", "assetMainImageExpiration">>,
     <<"locationId", "assetLocationId">>,
     <<"organizationId", "assetOrganizationId">>, <<"status", "assetStatus">>,
     <<"value", "assetValue">>, <<"availableToBook", "assetAvailableToBook">>,
     <<"kitId", "assetKitId">>, <<"categoryId", "assetCategoryId">>,
     <<"", "kitId">>, <<"", "kitName">>, <<"", "categoryId">>,
     <<"", "categoryName">>, <<"", "categoryColor">>, <<"", "locationName">>,
     <<"", "tags">>, <<"", "custody">>, <<"", "customFields">> >>

assetQueryAliases == {assetQueryFragment[i][2] : i \in 1..Len(assetQueryFragment)}

\* The column of Asset that assetQueryFragment selects under an output alias.
AssetColumnOfAlias(alias) ==
  LET i == CHOOSE j \in 1..Len(assetQueryFragment) : assetQueryFragment[j][2] = alias
  IN assetQueryFragment[i][1]

(***************************************************************************)
(* Inputs of the where-clause compiler.                                    *)
(***************************************************************************)
Orgs == {"org1", "org2"}

Searches ==
  {VNull, VStr(<<>>), VStr(<<SP>>), VStr(<<"pen">>),
   VStr(<<SP, "red", SP, "\t", "pen", SP>>)}

\* The filter types of the UI's switch; "array" is the one the compiler skips.
FilterTypes == {"string", "enum", "text", "number", "boolean", "date", "array"}

\* The keys of operatorsMap.
FilterOperators ==
  {"is", "isNot", "contains", "before", "after", "between", "gt", "lt", "gte",
   "lte", "in", "containsAll", "containsAny"}

\* The field a filter of each type is about in the asset index.
FieldOfType(t) ==
  CASE t = "string" -> <<"id">>
    [] t = "enum" -> <<"status">>
    [] t = "text" -> <<"description">>
    [] t = "number" -> <<"valuation">>
    [] t = "boolean" -> <<"availableToBook">>
    [] t = "date" -> <<"createdAt">>
    [] OTHER -> <<"tags">>

ScalarOf(t, i) ==
  CASE t = "number" -> VNum(i)
    [] t = "boolean" -> VBool(i = 1)
    [] t = "enum" -> VStr(<<IF i = 1 THEN "AVAILABLE" ELSE "IN_CUSTODY">>)
    [] t = "date" -> VStr(<<"2024-01-0", NumAtom(i)>>)
    [] OTHER -> VStr(<<"v", NumAtom(i)>>)

\* A scalar, or an array of 1..MaxArr distinct elements.
ValuesOf(t) ==
  {ScalarOf(t, 1)} \cup {VArr([i \in 1..n |-> ScalarOf(t, i)]) : n \in 1..MaxArr}

MkFilter(name, type, operator, value) ==
  [name |-> name, type |-> type, operator |-> <<operator>>, value |-> value]

\* A field name that closes the quoted identifier it is inlined into.
QuoteBreakingName == <<"availableToBook", DQ, "OR", "a.", DQ, "id">>

FilterNames ==
  {FieldOfType(t) : t \in FilterTypes} \cup {<<"foo">>, <<"OR">>, QuoteBreakingName}

AllFilters ==
  UNION {{MkFilter(FieldOfType(t), t, o, v) : o \in FilterOperators, v \in ValuesOf(t)} :
           t \in FilterTypes}
  \cup {MkFilter(n, "string", o, ScalarOf("string", 2)) :
          n \in FilterNames, o \in {"is", "isNot"}}

CoreFilters ==
  {MkFilter(<<"id">>, "string", "is", ScalarOf("string", 1)),
   MkFilter(<<"id">>, "string", "contains", ScalarOf("string", 1)),
   MkFilter(QuoteBreakingName, "string", "isNot", ScalarOf("string", 2)),
   MkFilter(<<"status">>, "enum", "in",
            VArr(<<ScalarOf("enum", 1), ScalarOf("enum", 2)>>)),
   MkFilter(<<"description">>, "text", "contains", ScalarOf("text", 1)),
   MkFilter(<<"valuation">>, "number", "between", VArr(<<VNum(1), VNum(2)>>)),
   MkFilter(<<"valuation">>, "number", "between", VArr(<<VNum(1)>>)),
   MkFilter(<<"valuation">>, "number", "gte", VNum(2)),
   MkFilter(<<"availableToBook">>, "boolean", "isNot", VBool(TRUE)),
   MkFilter(<<"createdAt">>, "date", "before", ScalarOf("date", 1)),
   MkFilter(<<"tags">>, "array", "containsAny", ScalarOf("array", 1))}

\* Every single filter, and the lists of up to MaxFilters core filters.
FilterLists ==
  {<<>>} \cup {<<f>> : f \in AllFilters}
  \cup UNION {[1..n -> CoreFilters] : n \in 2..MaxFilters}

(***************************************************************************)
(* Inputs of the filter parser: the key/value pairs of the query string.   *)
(***************************************************************************)
ParseKeys ==
  {FieldOfType(t) : t \in FilterTypes \ {"array"}} \cup {<<"foo">>, QuoteBreakingName}

ParseTexts ==
  {<<>>, <<"5">>, <<"1", "2">>, <<"5", COMMA, "7">>, <<"5", COMMA, "x">>,
   <<"true">>, <<"TRUE">>, <<"AVAILABLE">>, <<"AVAILABLE", COMMA, "IN_CUSTODY">>,
   <<"2024-01-01T10", COLON, "30">>}

ParseOperators == {<<"is">>, <<"between">>, <<"in">>, <<"contains">>, <<>>}

\* <operator>:<text>, and values without a ':'.
ParseValues ==
  {o \o <<COLON>> \o t : o \in ParseOperators, t \in ParseTexts}
  \cup {<<"is">>, <<"between">>, <<"in">>, <<"true">>, <<>>}

MkPair(key, value) == [key |-> key, value |-> value]

AllPairs == {MkPair(k, v) : k \in ParseKeys, v \in ParseValues}

CorePairs ==
  {MkPair(<<"id">>, <<"is", COLON, "5">>),
   MkPair(<<"status">>, <<"in", COLON, "AVAILABLE", COMMA, "IN_CUSTODY">>),
   MkPair(<<"status">>, <<"is", COLON, "AVAILABLE">>),
   MkPair(<<"valuation">>, <<"between", COLON, "5", COMMA, "7">>),
   MkPair(<<"availableToBook">>, <<"is", COLON, "TRUE">>),
   MkPair(<<"availableToBook">>, <<"true">>),
   MkPair(<<"createdAt">>, <<"is", COLON, "2024-01-01T10", COLON, "30">>),
   MkPair(<<"foo">>, <<"contains", COLON, "5">>)}

\* Every single pair, and the lists of up to MaxPairs core pairs.
PairLists ==
  {<<>>} \cup {<<q>> : q \in AllPairs}
  \cup UNION {[1..n -> CorePairs] : n \in 2..MaxPairs}

(***************************************************************************)
(* Inputs of the sort compiler.                                            *)
(***************************************************************************)
SortNames ==
  {<<f>> : f \in DOMAIN directAssetFields}
  \cup {<<"kit">>, <<"category">>, <<"location">>, <<"custody">>}
  \cup {<<"cf_", "color">>, <<"cf_", "my", SP, "\t", "size">>,
        <<"cf_", "my", "_", "size">>, <<"cf_">>}
  \cup {<<"foo">>, <<>>, <<"constructor">>, <<"toString">>}

SortKeys ==
  {n \o <<COLON, d>> : n \in SortNames, d \in {"asc", "desc"}}
  \cup {<<"name">>, <<"cf_", "color", COLON, "asc", COLON, "NUMBER">>,
        <<"id", COLON, "ASC">>, <<"kit", COLON, "asc; DROP TABLE x">>}

CoreSortKeys ==
  {<<"name", COLON, "asc">>, <<"valuation", COLON, "desc">>,
   <<"custody", COLON, "asc">>, <<"kit", COLON, "desc">>,
   <<"cf_", "color", COLON, "asc", COLON, "NUMBER">>,
   <<"cf_", "my", SP, "\t", "size", COLON, "desc">>,
   <<"cf_", "my", "_", "size", COLON, "asc">>,
   <<"foo", COLON, "asc">>, <<"constructor", COLON, "asc">>, <<"id">>}

SortLists ==
  {<<>>} \cup {<<q>> : q \in SortKeys}
  \cup UNION {[1..n -> CoreSortKeys] : n \in 2..MaxSort}

(***************************************************************************)
(* Inputs of getAssetsWhereInput and getLocationUpdateNoteContent.         *)
(***************************************************************************)
\* searchParams.get("status"): null when the parameter is missing.
StatusParams == {VNull, VStr(<<>>), VStr(<<"ALL">>), VStr(<<"AVAILABLE">>)}

SearchParams == {VNull, VStr(<<>>), VStr(<<SP, "Pen", SP>>)}

\* The id lists of one dimension: none, empty, plain ids, with the special id.
IdLists(id, special) ==
  {VUndef, VArr(<<>>), VArr(<<id>>), VArr(<<id, special>>), VArr(<<special>>)}

ParamsValues ==
  [search : SearchParams,
   categoriesIds : IdLists("c1", "uncategorized"),
   tagsIds : IdLists("t1", "untagged"),
   locationIds : IdLists("l1", "without-location"),
   teamMemberIds : IdLists("m1", "without-custody")]

NoParamsValues ==
  [search |-> VNull, categoriesIds |-> VArr(<<>>), tagsIds |-> VArr(<<>>),
   locationIds |-> VArr(<<>>), teamMemberIds |-> VArr(<<>>)]

\* currentSearchParams: undefined, null, the empty string, a string of
\* parameters.
CurrentSearchParams ==
  {VUndef, VNull,
   [k |-> "string", empty |-> TRUE, status |-> VNull, paramsValues |-> NoParamsValues]}
  \cup {[k |-> "string", empty |-> FALSE, status |-> st, paramsValues |-> pv] :
          st \in StatusParams, pv \in ParamsValues}

NoteLocations ==
  {VUndef, VNull}
  \cup {VLocation(id, name) :
          id \in {<<"l1">>, <<"l2", SP>>},
          name \in {<<"Lab">>, <<SP, "Main", SP, "Hall", "\t">>}}

NoteArgs ==
  [currentLocation : NoteLocations,
   newLocation : NoteLocations,
   firstName : {<<"Ann">>, <<SP, "Ann", SP>>},
   lastName : {<<"Lee">>, <<"Lee", "\t">>},
   assetName : {<<"Drill">>, <<SP, "Cordless", SP, "Drill">>},
   isRemoving : {VUndef, VBool(TRUE), VBool(FALSE)}]

(***************************************************************************)
(* Inputs of ValueField.                                                   *)
(***************************************************************************)
FieldTypes == {"number", "date", "string"}

FieldOperators == {"between", "is", "gt"}

\* The texts a bound of each type takes: empty, parsing, not parsing.
BoundTexts(type) ==
  CASE type = "number" -> {<<>>, <<"5">>, <<"9">>, <<"1", "0">>, <<"abc">>}
    [] type = "date" -> {<<>>, <<"2024-01-0", "1">>, <<"2024-01-0", "2">>, <<"abc">>}
    [] OTHER -> {<<>>, <<"5">>, <<"abc">>}

\* filter.value when the field mounts: no array, or the two bounds.
InitialValues(type) ==
  {VStr(<<>>)}
  \cup {VArr(<<VStr(a), VStr(b)>>) : a \in BoundTexts(type), b \in BoundTexts(type)}

(***************************************************************************)
(* The state machine: one call chain per behaviour.                        *)
(***************************************************************************)
NoField ==
  [filter |-> MkFilter(<<"id">>, "string", "is", VStr(<<>>)),
   localValue |-> <<<<>>, <<>>>>, error |-> VNull, effectPending |-> FALSE,
   edits |-> 0]

NoInputCall ==
  [organizationId |-> "", currentSearchParams |-> VUndef,
   result |-> [organizationId |-> ""]]

NoNoteCall ==
  [args |-> [currentLocation |-> VUndef, newLocation |-> VUndef, firstName |-> <<>>,
             lastName |-> <<>>, assetName |-> <<>>, isRemoving |-> VUndef],
   result |-> <<>>]

NoWhereCall ==
  [organizationId |-> "", search |-> VNull, filters |-> <<>>, result |-> SqlEmpty]

NoParseCall == [pairs |-> <<>>, result |-> [threw |-> FALSE, filters |-> <<>>]]

NoSortCall == [sortBy |-> <<>>, result |-> parseSortingOptions(<<>>)]

NoSelectCall == [customFieldSortings |-> <<>>, result |-> SqlEmpty]

Init ==
  /\ pc = "idle"
  /\ whereCall = NoWhereCall
  /\ parseCall = NoParseCall
  /\ sortCall = NoSortCall
  /\ selectCall = NoSelectCall
  /\ inputCall = NoInputCall
  /\ noteCall = NoNoteCall
  /\ valueField = NoField

\* generateWhereClause(organizationId, search, filters) on a filter list.
CallGenerateWhereClause ==
  /\ pc = "idle"
  /\ \E organizationId \in Orgs, search \in Searches, filters \in FilterLists :
       whereCall' = [organizationId |-> organizationId, search |-> search,
                     filters |-> filters,
                     result |-> generateWhereClause(organizationId, search, filters)]
  /\ pc' = "where"
  /\ UNCHANGED <<parseCall, sortCall, selectCall, inputCall, noteCall, valueField>>

\* parseFilters(filtersString) on the pairs of the query string.
CallParseFilters ==
  /\ pc = "idle"
  /\ \E pairs \in PairLists :
       parseCall' = [pairs |-> pairs, result |-> parseFilters(pairs)]
  /\ pc' = "parse"
  /\ UNCHANGED <<whereCall, sortCall, selectCall, inputCall, noteCall, valueField>>

\* generateWhereClause on the list parseFilters returned.
CompileParsedFilters ==
  /\ pc = "parse"
  /\ ~parseCall.result.threw
  /\ \E organizationId \in Orgs, search \in {VNull, VStr(<<"pen">>)} :
       whereCall' = [organizationId |-> organizationId, search |-> search,
                     filters |-> parseCall.result.filters,
                     result |-> generateWhereClause(organizationId, search,
                                                    parseCall.result.filters)]
  /\ pc' = "where"
  /\ UNCHANGED <<parseCall, sortCall, selectCall, inputCall, noteCall, valueField>>

\* parseSortingOptions(sortBy).
CallParseSortingOptions ==
  /\ pc = "idle"
  /\ \E sortBy \in SortLists :
       sortCall' = [sortBy |-> sortBy, result |-> parseSortingOptions(sortBy)]
  /\ pc' = "sort"
  /\ UNCHANGED <<whereCall, parseCall, selectCall, inputCall, noteCall, valueField>>

\* generateCustomFieldSelect on the sortings parseSortingOptions returned.
CallGenerateCustomFieldSelect ==
  /\ pc = "sort"
  /\ selectCall' =
       [customFieldSortings |-> sortCall.result.customFieldSortings,
        result |-> generateCustomFieldSelect(sortCall.result.customFieldSortings)]
  /\ pc' = "select"
  /\ UNCHANGED <<whereCall, parseCall, sortCall, inputCall, noteCall, valueField>>

\* getAssetsWhereInput({ organizationId, currentSearchParams }).
CallGetAssetsWhereInput ==
  /\ pc = "idle"
  /\ \E organizationId \in Orgs, currentSearchParams \in CurrentSearchParams :
       inputCall' = [organizationId |-> organizationId,
                     currentSearchParams |-> currentSearchParams,
                     result |-> getAssetsWhereInput(organizationId,
                                                    currentSearchParams)]
  /\ pc' = "input"
  /\ UNCHANGED <<whereCall, parseCall, sortCall, selectCall, noteCall, valueField>>

\* getLocationUpdateNoteContent(args).
CallGetLocationUpdateNoteContent ==
  /\ pc = "idle"
  /\ \E args \in NoteArgs :
       noteCall' = [args |-> args, result |-> getLocationUpdateNoteContent(args)]
  /\ pc' = "note"
  /\ UNCHANGED <<whereCall, parseCall, sortCall, selectCall, inputCall, valueField>>

\* ValueField mounts: the state hooks are initialised, the effects are due.
MountValueField ==
  /\ pc = "idle"
  /\ \E type \in FieldTypes, operator \in FieldOperators :
       \E value \in InitialValues(type) :
         LET filter == MkFilter(FieldOfType(type), type, operator, value)
         IN valueField' = [filter |-> filter, localValue |-> initialLocalValue(filter),
                      error |-> VNull, effectPending |-> TRUE, edits |-> 0]
  /\ pc' = "field"
  /\ UNCHANGED <<whereCall, parseCall, sortCall, selectCall, inputCall, noteCall>>

\* handleBetweenChange(index) on a change of one of the two number inputs.
HandleBetweenChange ==
  /\ pc = "field"
  /\ valueField.edits < MaxEdits
  /\ valueField.filter.type = "number"
  /\ valueField.filter.operator = <<"between">>
  /\ \E index \in 1..2, text \in BoundTexts("number") :
       LET newValue == [valueField.localValue EXCEPT ![index] = text]
       IN valueField' = [valueField EXCEPT
                      !.localValue = newValue,
                      !.filter.value =
                         IF newValue[1] # <<>> /\ newValue[2] # <<>>
                         THEN VArr(<<VStr(newValue[1]), VStr(newValue[2])>>)
                         ELSE @,
                      !.effectPending = TRUE,
                      !.edits = @ + 1]
  /\ UNCHANGED <<pc, whereCall, parseCall, sortCall, selectCall, inputCall, noteCall>>

\* The parent renders ValueField with another filter.operator.
ChangeOperator ==
  /\ pc = "field"
  /\ valueField.edits < MaxEdits
  /\ \E operator \in FieldOperators \ {valueField.filter.operator[1]} :
       valueField' = [valueField EXCEPT !.filter.operator = <<operator>>,
                              !.effectPending = TRUE,
                              !.edits = @ + 1]
  /\ UNCHANGED <<pc, whereCall, parseCall, sortCall, selectCall, inputCall, noteCall>>

\* The effect on [localValue, validateBetweenFilter] runs after the render.
ValidationEffect ==
  /\ pc = "field"
  /\ valueField.effectPending
  /\ valueField' = [valueField EXCEPT
                 !.error = validateBetweenFilter(valueField.filter, valueField.localValue),
                 !.effectPending = FALSE]
  /\ UNCHANGED <<pc, whereCall, parseCall, sortCall, selectCall, inputCall, noteCall>>

Next ==
  \/ MountValueField
  \/ HandleBetweenChange
  \/ ChangeOperator
  \/ ValidationEffect
  \/ CallGetAssetsWhereInput
  \/ CallGetLocationUpdateNoteContent
  \/ CallGenerateWhereClause
  \/ CallParseFilters
  \/ CompileParsedFilters
  \/ CallParseSortingOptions
  \/ CallGenerateCustomFieldSelect

Spec == Init /\ [][Next]_vars

(***************************************************************************)
(* Reading a compiled clause back.                                         *)
(***************************************************************************)
\* Position i of the text is outside every double-quoted identifier.
OutsideQuotes(text, i) ==
  Cardinality({j \in 1..(i - 1) : text[j] = DQ}) % 2 = 0

\* The clause before any filter is added: the organization and the search.
BaseLen(call) ==
  Len(OrgCondition)
  + (IF call.search.k = "string" /\ \E i \in 1..Len(call.search.s) :
                                       ~IsSpace(call.search.s[i])
     THEN Len(SearchCondition) ELSE 0)

\* The positions after the base where a condition is joined with AND (the
\* AND of BETWEEN ? AND ? is not one).
ConditionStarts(call) ==
  LET t == call.result.text
  IN {i \in (BaseLen(call) + 1)..Len(t) :
        /\ t[i] = "AND"
        /\ OutsideQuotes(t, i)
        /\ ~(i >= 3 /\ t[i - 2] = "BETWEEN")}

RECURSIVE SortedSeq(_)
SortedSeq(S) ==
  IF S = {} THEN <<>>
  ELSE LET m == CHOOSE x \in S : \A y \in S : x <= y
       IN <<m>> \o SortedSeq(S \ {m})

\* The conditions joined after the base, in order, each starting at its AND.
Conditions(call) ==
  LET t == call.result.text
      starts == SortedSeq(ConditionStarts(call))
  IN [k \in 1..Len(starts) |->
        SubSeq(t, starts[k],
               IF k < Len(starts) THEN starts[k + 1] - 1 ELSE Len(t))]

\* The column a condition compares: what follows AND, or AND DATE( .
ConditionColumn(cond) ==
  IF Len(cond) >= 2 /\ cond[2] = "DATE"
  THEN SubSeq(cond, 4, Len(cond)) ELSE SubSeq(cond, 2, Len(cond))

IsPrefix(p, t) == Len(p) <= Len(t) /\ SubSeq(t, 1, Len(p)) = p

(***************************************************************************)
(* C1.  The clause starts with a."organizationId" = <organizationId> and   *)
(* every search or filter contribution is joined to it with AND only: no   *)
(* OR appears in the statement outside a quoted identifier.                *)
(***************************************************************************)
\* C1: the clause starts with the organization condition, bound to the
\* organization id, and no OR stands outside a quoted identifier.
C1_OrgConditionAndOnly ==
  pc = "where" =>
    LET t == whereCall.result.text
    IN /\ IsPrefix(<<"WHERE", "a.", DQ, "organizationId", DQ, "=", "?">>, t)
       /\ whereCall.result.values[1] = VStr(<<whereCall.organizationId>>)
       /\ \A i \in 1..Len(t) : t[i] = "OR" => ~OutsideQuotes(t, i)

(***************************************************************************)
(* C2.  The clause is parameterized: a call with the same filter names,    *)
(* types, operators and value shapes and the same kind of search string    *)
(* gives the same statement text, and the organization id, the search and  *)
(* the values are bound parameters.                                        *)
(***************************************************************************)
C2_AltValue(v) ==
  IF IsArray(v) THEN VArr([i \in 1..Len(v.items) |-> VNum(9)]) ELSE VStr(<<"other">>)

\* The lists that differ from filters only in values of the same shape.
C2_SameShape(filters) ==
  {[i \in 1..Len(filters) |->
      IF i \in m THEN [filters[i] EXCEPT !.value = C2_AltValue(@)] ELSE filters[i]] :
     m \in SUBSET (1..Len(filters))}

C2_NonEmpty(search) == search.k = "string" /\ search.s # <<>>

C2_HasWord(search) ==
  search.k = "string" /\ \E i \in 1..Len(search.s) : ~IsSpace(search.s[i])

C2_BoundOnly(call) ==
  /\ call.result.values[1] = VStr(<<call.organizationId>>)
  /\ Cardinality({i \in 1..Len(call.result.text) : call.result.text[i] = "?"})
       = Len(call.result.values)

\* C2 as stated: same shapes, and search strings both empty or both
\* non-empty, give the same text; the inputs are bound parameters.
C2_TextBySearchNonEmpty ==
  pc = "where" =>
    /\ C2_BoundOnly(whereCall)
    /\ \A organizationId \in Orgs, search \in Searches,
          filters \in C2_SameShape(whereCall.filters) :
         C2_NonEmpty(search) = C2_NonEmpty(whereCall.search) =>
           generateWhereClause(organizationId, search, filters).text
             = whereCall.result.text

\* C2 amended: same shapes, and search strings that both hold a word or
\* both hold none, give the same text; the inputs are bound parameters.
C2_TextBySearchWords ==
  pc = "where" =>
    /\ C2_BoundOnly(whereCall)
    /\ \A organizationId \in Orgs, search \in Searches,
          filters \in C2_SameShape(whereCall.filters) :
         C2_HasWord(search) = C2_HasWord(whereCall.search) =>
           generateWhereClause(organizationId, search, filters).text
             = whereCall.result.text

C2_Witness ==
  /\ pc = "where"
  /\ C2_HasWord(whereCall.search)
  /\ Len(whereCall.filters) = 2
  /\ Len(whereCall.result.values) >= 6

(***************************************************************************)
(* C3.  For a filter on id, status, description, valuation,                *)
(* availableToBook or createdAt, the column written into the condition is  *)
(* the Asset column that assetQueryFragment selects for that field.        *)
(***************************************************************************)
C3_KnownFields ==
  {"id", "status", "description", "valuation", "availableToBook", "createdAt"}

\* C3: the column a known field's filter compares is the column that
\* assetQueryFragment selects for the field.
C3_ColumnsMatchFragment ==
  (pc = "where" /\ Len(whereCall.filters) = 1) =>
    LET f == whereCall.filters[1]
        conds == Conditions(whereCall)
    IN (Len(f.name) = 1 /\ f.name[1] \in C3_KnownFields /\ Len(conds) = 1) =>
         IsPrefix(<<"a.", DQ, AssetColumnOfAlias(directAssetFields[f.name[1]]), DQ>>,
                  ConditionColumn(conds[1]))

(***************************************************************************)
(* C10.  A filter leaves the clause unchanged when its operator is not     *)
(* handled for its type, when a between value is not an array of two, when *)
(* an in value is not an array, or when its type is not compiled; every    *)
(* other filter contributes exactly one AND condition, in filter order.    *)
(***************************************************************************)
C10_HandledOperators(type) ==
  CASE type = "string" -> {<<"is">>, <<"isNot">>}
    [] type = "enum" -> {<<"is">>, <<"isNot">>, <<"in">>}
    [] type = "text" -> {<<"contains">>}
    [] type = "number" -> {<<"is">>, <<"isNot">>, <<"gt">>, <<"lt">>, <<"gte">>,
                           <<"lte">>, <<"between">>}
    [] type = "date" -> {<<"is">>, <<"isNot">>, <<"before">>, <<"after">>,
                         <<"between">>}
    [] OTHER -> {}

C10_BadValue(f) ==
  \/ f.operator = <<"between">> /\ ~(IsArray(f.value) /\ Len(f.value.items) = 2)
  \/ f.operator = <<"in">> /\ ~IsArray(f.value)

\* C10 as stated: the value conditions apply to a filter of any type.
C10_Unchanged(f) ==
  \/ f.type \notin {"string", "enum", "text", "number", "boolean", "date"}
  \/ f.type # "boolean" /\ f.operator \notin C10_HandledOperators(f.type)
  \/ C10_BadValue(f)

\* C10 amended: a boolean filter always contributes.
C10_UnchangedNonBoolean(f) ==
  \/ f.type \notin {"string", "enum", "text", "number", "boolean", "date"}
  \/ f.type # "boolean" /\ f.operator \notin C10_HandledOperators(f.type)
  \/ f.type # "boolean" /\ C10_BadValue(f)

\* The clause holds one AND condition per filter of contributing, in order,
\* each on that filter's column, and nothing else after the base.
C10_OneConditionEach(call, contributing) ==
  LET conds == Conditions(call)
  IN /\ Len(conds) = Len(contributing)
     /\ Len(call.result.text) = BaseLen(call) + Len(Concat(conds))
     /\ \A k \in 1..Len(conds) :
          IsPrefix(<<"a.", DQ>> \o contributing[k].name \o <<DQ>>,
                   ConditionColumn(conds[k]))

\* C10 as stated: one AND condition per filter that C10_Unchanged spares.
C10_FrameAsStated ==
  pc = "where" =>
    C10_OneConditionEach(whereCall,
      SelectSeq(whereCall.filters, LAMBDA f : ~C10_Unchanged(f)))

\* C10 amended: one AND condition, in filter order, per filter that is not
\* left out, where a boolean filter is never left out.
C10_FrameBooleanAlways ==
  pc = "where" =>
    C10_OneConditionEach(whereCall,
      SelectSeq(whereCall.filters, LAMBDA f : ~C10_UnchangedNonBoolean(f)))

C10_Witness ==
  /\ pc = "where"
  /\ Len(whereCall.filters) = 2
  /\ C10_UnchangedNonBoolean(whereCall.filters[1])
  /\ whereCall.filters[1].operator = <<"between">>
  /\ whereCall.filters[2].type = "boolean"
  /\ Len(Conditions(whereCall)) = 1

(***************************************************************************)
(* Reading sort keys and ORDER BY parts back.                              *)
(***************************************************************************)
\* The field name of a sort key: the text before its first ':'.
SortKeyName(key) == SplitOn(key, COLON)[1]

SortKeyNames(sortBy) == [i \in 1..Len(sortBy) |-> SortKeyName(sortBy[i])]

DirectFieldNames ==
  {<<"id">>, <<"name">>, <<"valuation">>, <<"status">>, <<"description">>,
   <<"createdAt">>, <<"availableToBook">>}

RelationNames == {<<"kit">>, <<"category">>, <<"location">>, <<"custody">>}

HasCfPrefix(name) == IsPrefix(<<"cf_">>, name)

\* The keys the sort compiler is meant to accept.
RecognizedName(name) ==
  name \in DirectFieldNames \/ name \in RelationNames \/ HasCfPrefix(name)

\* The list without its i-th element.
Without(seq, i) == SubSeq(seq, 1, i - 1) \o SubSeq(seq, i + 1, Len(seq))

\* The column an ORDER BY part of a non-custom key names.
PartColumn(part) == IF part[1] = DQ THEN part[2] ELSE part[1]

IsCustomPart(part) == part[1] = "cf_"

(***************************************************************************)
(* C4.  A sort key that is no direct asset field, not kit, category,       *)
(* location or custody, and has no cf_ prefix is ignored with a warning:   *)
(* the parts and custom-field sortings are those of the list without it.   *)
(***************************************************************************)
\* C4: an unrecognized sort key adds nothing and is warned about.
C4_UnknownKeyIgnored ==
  pc = "sort" =>
    \A i \in 1..Len(sortCall.sortBy) :
      ~RecognizedName(SortKeyName(sortCall.sortBy[i])) =>
        LET rest == parseSortingOptions(Without(sortCall.sortBy, i))
        IN /\ sortCall.result.orderByParts = rest.orderByParts
           /\ sortCall.result.customFieldSortings = rest.customFieldSortings
           /\ \E w \in 1..Len(sortCall.result.warnings) :
                sortCall.result.warnings[w] = SortKeyName(sortCall.sortBy[i])

(***************************************************************************)
(* C5.  There is exactly one ORDER BY part per recognized sort key, in key *)
(* order; orderByClause is empty exactly when no key is recognized and     *)
(* otherwise "ORDER BY " followed by the parts joined with ", ".           *)
(***************************************************************************)
\* C5: one ORDER BY part per recognized key, and the clause built from them.
C5_OnePartPerRecognizedKey ==
  pc = "sort" =>
    LET recognized == SelectSeq(sortCall.sortBy,
                                LAMBDA key : RecognizedName(SortKeyName(key)))
        parts == sortCall.result.orderByParts
    IN /\ Len(parts) = Len(recognized)
       /\ \A k \in 1..Len(parts) :
            HasCfPrefix(SortKeyName(recognized[k])) = IsCustomPart(parts[k])
       /\ (sortCall.result.orderByClause = <<>>) = (Len(recognized) = 0)
       /\ Len(recognized) > 0 =>
            sortCall.result.orderByClause
              = <<"ORDER BY", SP>> \o JoinWith(parts, <<COMMA, SP>>)

(***************************************************************************)
(* C6.  Each cf_ key yields one CustomFieldSorting named by the key        *)
(* without the prefix; its ORDER BY part uses the sorting's alias;         *)
(* generateCustomFieldSelect emits one sub-select per sorting under that   *)
(* alias, and the empty fragment when there is no sorting.                 *)
(***************************************************************************)
\* The aliases a select fragment defines: what follows each AS up to the
\* next "," or the end.
RECURSIVE UpToComma(_)
UpToComma(t) ==
  IF t = <<>> \/ t[1] = COMMA THEN <<>> ELSE <<t[1]>> \o UpToComma(Tail(t))

SelectAliases(text) ==
  LET at == SortedSeq({i \in 1..Len(text) : text[i] = "AS"})
  IN [k \in 1..Len(at) |-> UpToComma(SubSeq(text, at[k] + 1, Len(text)))]

C6_SortingsOfCall ==
  LET cfNames == SelectSeq(SortKeyNames(sortCall.sortBy), HasCfPrefix)
      sortings == sortCall.result.customFieldSortings
      cfParts == SelectSeq(sortCall.result.orderByParts, IsCustomPart)
  IN /\ Len(sortings) = Len(cfNames)
     /\ Len(cfParts) = Len(cfNames)
     /\ \A k \in 1..Len(cfNames) :
          /\ <<"cf_">> \o sortings[k].name = cfNames[k]
          /\ IsPrefix(sortings[k].alias \o <<SP>>, cfParts[k])

C6_SelectOfCall ==
  LET sortings == sortCall.result.customFieldSortings
  IN /\ selectCall.customFieldSortings = sortings
     /\ SelectAliases(selectCall.result.text)
          = [k \in 1..Len(sortings) |-> sortings[k].alias]
     /\ Len(sortings) = 0 => selectCall.result = SqlEmpty
     /\ \A k \in 1..Len(sortings) :
          \E p \in 1..Len(sortCall.result.orderByParts) :
            IsPrefix(SelectAliases(selectCall.result.text)[k] \o <<SP>>,
                     sortCall.result.orderByParts[p])

\* C6: one sorting per cf_ key, named by the key without the prefix, whose
\* alias the ORDER BY part uses and the select fragment defines.
C6_CustomFieldAliasesDefined ==
  /\ pc \in {"sort", "select"} => C6_SortingsOfCall
  /\ pc = "select" => C6_SelectOfCall

C6_Witness ==
  /\ pc = "select"
  /\ Len(selectCall.customFieldSortings) = 2
  /\ selectCall.customFieldSortings[1].name = <<"my", SP, "\t", "size">>
  /\ selectCall.customFieldSortings[2].name = <<"color">>

(***************************************************************************)
(* C7.  The column of every ORDER BY part for a direct field, kit,         *)
(* category, location or custody is an output alias of assetQueryFragment. *)
(***************************************************************************)
\* C7: the column sorted by for a direct field, kit, category, location or
\* custody is an output alias of assetQueryFragment.
C7_SortColumnsAreAliases ==
  pc = "sort" =>
    LET names == SortKeyNames(sortCall.sortBy)
        parts == sortCall.result.orderByParts
    IN \A i \in 1..Len(names) :
         names[i] \in DirectFieldNames \cup RelationNames =>
           \* the part of key i: keys before it that produced a part, plus one
           LET p == 1 + Len(parts) - Len(parseSortingOptions(
                                           SubSeq(sortCall.sortBy, i, Len(names))
                                         ).orderByParts)
           IN p \in 1..Len(parts) /\ PartColumn(parts[p]) \in assetQueryAliases

C7_Witness ==
  /\ pc = "sort"
  /\ SortKeyNames(sortCall.sortBy) = <<<<"custody">>, <<"valuation">> >>
  /\ Len(sortCall.result.orderByParts) = 2

(***************************************************************************)
(* C8.  parseFilters returns one record per key/value pair, in order, with *)
(* the key as name, the text before the first ':' as operator and the type *)
(* given by the name.                                                      *)
(***************************************************************************)
C8_TypeOfName(name) ==
  CASE name = <<"status">> -> "enum"
    [] name = <<"description">> -> "text"
    [] name = <<"valuation">> -> "number"
    [] name = <<"availableToBook">> -> "boolean"
    [] name = <<"createdAt">> -> "date"
    [] OTHER -> "string"

RECURSIVE UpToColon(_)
UpToColon(t) ==
  IF t = <<>> \/ t[1] = COLON THEN <<>> ELSE <<t[1]>> \o UpToColon(Tail(t))

\* C8: parseFilters returns one record per pair, with name, operator and
\* type as the pair gives them.
C8_OneRecordPerPair ==
  pc = "parse" =>
    LET pairs == parseCall.pairs
        filters == parseCall.result.filters
    IN /\ ~parseCall.result.threw
       /\ Len(filters) = Len(pairs)
       /\ \A i \in 1..Len(filters) :
            /\ filters[i].name = pairs[i].key
            /\ filters[i].operator = UpToColon(pairs[i].value)
            /\ filters[i].type = C8_TypeOfName(pairs[i].key)

(***************************************************************************)
(* C9.  The value is parsed by field: valuation a number (a list of        *)
(* numbers with between), availableToBook true exactly for "true" in any   *)
(* case, createdAt and status the text (a list with between, in), every    *)
(* other field the text unchanged.                                         *)
(***************************************************************************)
\* The text of a value: what parseFilters hands to parseFilterValue.
C9_HasText(value) == \E i \in 1..Len(value) : value[i] = COLON

C9_Text(value) == UpToColon(SubSeq(value, Len(UpToColon(value)) + 2, Len(value)))

C9_List(text) == LET parts == SplitOn(text, COMMA)
                 IN [i \in 1..Len(parts) |-> VStr(parts[i])]

C9_Expected(field, operator, text) ==
  CASE field = <<"valuation">> ->
         IF operator = <<"between">>
         THEN VArr([i \in 1..Len(C9_List(text)) |-> Number(C9_List(text)[i])])
         ELSE Number(VStr(text))
    [] field = <<"availableToBook">> ->
         VBool(toLowerCase(text) = <<"true">>)
    [] field = <<"createdAt">> ->
         IF operator = <<"between">> THEN VArr(C9_List(text)) ELSE VStr(text)
    [] field = <<"status">> ->
         IF operator = <<"in">> THEN VArr(C9_List(text)) ELSE VStr(text)
    [] OTHER -> VStr(text)

\* C9: parseFilters returns each value parsed as its field asks.
C9_ValueByField ==
  pc = "parse" =>
    /\ ~parseCall.result.threw
    /\ \A i \in 1..Len(parseCall.result.filters) :
         LET pair == parseCall.pairs[i]
             value == parseCall.result.filters[i].value
         IN IF C9_HasText(pair.value)
            THEN value = C9_Expected(pair.key, UpToColon(pair.value),
                                     C9_Text(pair.value))
            ELSE pair.key = <<"availableToBook">> => value = VBool(FALSE)

(***************************************************************************)
(* C12.  A search without a word adds no full-text condition; a search     *)
(* with words adds exactly one, whose tsquery parameter is "w:* | w" for   *)
(* each word w of the trimmed search, joined with " | " in word order.     *)
(***************************************************************************)
\* The positions where a word of the text starts.
C12_WordStarts(s) ==
  {i \in 1..Len(s) : ~IsSpace(s[i]) /\ (i = 1 \/ IsSpace(s[i - 1]))}

\* The word that starts at position i: up to the next whitespace or the end.
C12_WordAt(s, i) ==
  LET last == CHOOSE j \in i..Len(s) :
                /\ \A m \in i..j : ~IsSpace(s[m])
                /\ (j = Len(s) \/ IsSpace(s[j + 1]))
  IN SubSeq(s, i, last)

C12_WordsOf(s) ==
  LET starts == SortedSeq(C12_WordStarts(s))
  IN [k \in 1..Len(starts) |-> C12_WordAt(s, starts[k])]

C12_Query(s) ==
  LET words == C12_WordsOf(s)
  IN JoinWith([k \in 1..Len(words) |->
                 words[k] \o <<COLON, "*", SP, "|", SP>> \o words[k]],
              <<SP, "|", SP>>)

\* The full-text conditions of a statement: its to_tsquery calls.
C12_FullTextCount(text) ==
  Cardinality({i \in 1..Len(text) : text[i] = "to_tsquery" /\ OutsideQuotes(text, i)})

\* C12: no full-text condition for a null, empty or whitespace-only search;
\* otherwise exactly one, right after the organization condition, bound to
\* the words' contributions "w:* | w" joined with " | " in word order.
C12_SearchCondition ==
  pc = "where" =>
    LET search == whereCall.search
        result == whereCall.result
    IN IF search.k = "string" /\ C12_WordStarts(search.s) # {}
       THEN /\ C12_FullTextCount(result.text) = 1
            /\ SubSeq(result.text, Len(OrgCondition) + 1,
                      Len(OrgCondition) + Len(SearchCondition)) = SearchCondition
            /\ result.values[2] = VStr(C12_Query(search.s))
       ELSE C12_FullTextCount(result.text) = 0

C12_Witness ==
  /\ pc = "where"
  /\ whereCall.search = VStr(<<SP, "red", SP, "\t", "pen", SP>>)
  /\ whereCall.filters # <<>>
  /\ whereCall.result.values[2] =
       VStr(<<"red", COLON, "*", SP, "|", SP, "red", SP, "|", SP,
              "pen", COLON, "*", SP, "|", SP, "pen">>)

(***************************************************************************)
(* C13.  The direction written after each column of the ORDER BY clause is *)
(* exactly asc or desc.                                                    *)
(***************************************************************************)
\* What a part writes after its column: the text behind the first space.
C13_Direction(part) ==
  LET i == CHOOSE j \in 1..Len(part) : part[j] = SP /\ \A m \in 1..(j - 1) : part[m] # SP
  IN SubSeq(part, i + 1, Len(part))

\* C13: for any sortBy, every ORDER BY part ends in the direction asc or desc.
C13_DirectionAscOrDesc ==
  pc = "sort" =>
    \A i \in 1..Len(sortCall.result.orderByParts) :
      C13_Direction(sortCall.result.orderByParts[i]) \in {<<"asc">>, <<"desc">>}

(***************************************************************************)
(* C14.  A boolean filter compiles to the equality a."<field>" = <value>   *)
(* whatever its operator is.                                               *)
(***************************************************************************)
C14_Equality(f) ==
  [text |-> <<"AND", "a.", DQ>> \o f.name \o <<DQ, "=", "?">>, values |-> <<f.value>>]

\* C14: each boolean filter adds a."<field>" = <value> to the clause built
\* from the filters before it, and the clause is the same with operator is
\* and with operator isNot.
C14_BooleanIsEquality ==
  pc = "where" =>
    LET org == whereCall.organizationId
        search == whereCall.search
        filters == whereCall.filters
    IN \A i \in 1..Len(filters) :
         filters[i].type = "boolean" =>
           LET before == generateWhereClause(org, search, SubSeq(filters, 1, i - 1))
               upto == generateWhereClause(org, search, SubSeq(filters, 1, i))
           IN /\ upto.text = before.text \o C14_Equality(filters[i]).text
              /\ upto.values = before.values \o C14_Equality(filters[i]).values
              /\ IsPrefix(upto.text, whereCall.result.text)
              /\ \A o \in {"is", "isNot"} :
                   generateWhereClause(org, search,
                                       [filters EXCEPT ![i].operator = <<o>>])
                     = whereCall.result

C14_Witness ==
  /\ pc = "where"
  /\ Len(whereCall.filters) = 2
  /\ whereCall.filters[1].type = "number"
  /\ whereCall.filters[2].type = "boolean"
  /\ whereCall.filters[2].operator = <<"isNot">>
  /\ whereCall.result.text[Len(whereCall.result.text) - 1] = "="

(***************************************************************************)
(* C18.  The column identifiers that generateWhereClause(parseFilters(s))  *)
(* writes into the SQL text are known field names; a key of the query      *)
(* string that is not a known field never reaches the text.                *)
(***************************************************************************)
C18_KnownFields ==
  {<<"id">>, <<"status">>, <<"description">>, <<"valuation">>,
   <<"availableToBook">>, <<"createdAt">>}

\* The columns the compiler writes by itself: the organization and the search.
C18_FixedColumns == {<<"organizationId">>, <<"title">>, <<"description">>}

\* The identifier opened at position i (after a." ): up to the closing quote.
RECURSIVE C18_UpToQuote(_)
C18_UpToQuote(t) ==
  IF t = <<>> \/ t[1] = DQ THEN <<>> ELSE <<t[1]>> \o C18_UpToQuote(Tail(t))

C18_ColumnIdentifiers(text) ==
  {C18_UpToQuote(SubSeq(text, i + 2, Len(text))) :
     i \in {j \in 1..(Len(text) - 1) :
              text[j] = "a." /\ text[j + 1] = DQ /\ OutsideQuotes(text, j)}}

C18_Occurs(key, text) ==
  \E i \in 1..(Len(text) - Len(key) + 1) : SubSeq(text, i, i + Len(key) - 1) = key

\* C18: in the clause compiled from parsed filters every column identifier
\* is a known field name, and no unknown key of the query string occurs.
C18_ColumnsFromKnownFields ==
  (pc = "where" /\ parseCall.pairs # <<>>) =>
    /\ C18_ColumnIdentifiers(whereCall.result.text)
          \subseteq (C18_KnownFields \cup C18_FixedColumns)
    /\ \A i \in 1..Len(parseCall.pairs) :
         parseCall.pairs[i].key \notin C18_KnownFields =>
           ~C18_Occurs(parseCall.pairs[i].key, whereCall.result.text)

(***************************************************************************)
(* C19.  Two sort keys for different custom-field names never receive the  *)
(* same alias.                                                             *)
(***************************************************************************)
\* C19: the sortings of different custom-field names have different aliases.
C19_AliasInjective ==
  pc \in {"sort", "select"} =>
    LET sortings == sortCall.result.customFieldSortings
    IN \A i, j \in 1..Len(sortings) :
         sortings[i].name # sortings[j].name => sortings[i].alias # sortings[j].alias

(***************************************************************************)
(* C20.  parseFilters returns a filter list for every query string without *)
(* throwing, values without a ':' included.                                *)
(***************************************************************************)
\* C20: parseFilters returns a list, one filter per pair, and never throws.
C20_NeverThrows ==
  pc = "parse" =>
    /\ ~parseCall.result.threw
    /\ Len(parseCall.result.filters) = Len(parseCall.pairs)

(***************************************************************************)
(* C11.  getAssetsWhereInput keeps the organization id at the top level of *)
(* the where input, and returns exactly { organizationId } when            *)
(* currentSearchParams is absent or empty.                                 *)
(***************************************************************************)
C11_AbsentOrEmpty(currentSearchParams) ==
  currentSearchParams \in {VUndef, VNull}
  \/ (currentSearchParams.k = "string" /\ currentSearchParams.empty)

\* C11: the result's top-level organizationId is the given id, no element
\* of its OR list holds an organizationId, and without search params the
\* result is exactly { organizationId }.
C11_OrganizationIdTopLevel ==
  pc = "input" =>
    LET where == inputCall.result
    IN /\ "organizationId" \in DOMAIN where
       /\ where.organizationId = inputCall.organizationId
       /\ "OR" \in DOMAIN where =>
            \A i \in 1..Len(where.OR) : "organizationId" \notin DOMAIN where.OR[i]
       /\ C11_AbsentOrEmpty(inputCall.currentSearchParams) =>
            where = [organizationId |-> inputCall.organizationId]

C11_Witness ==
  /\ pc = "input"
  /\ inputCall.organizationId = "org2"
  /\ {"organizationId", "title", "status", "tags", "location", "OR"}
       \subseteq DOMAIN inputCall.result
  /\ Len(inputCall.result.OR) = 7

(***************************************************************************)
(* C16.  A status parameter "ALL" is treated as a missing one; any other   *)
(* non-empty status sets where.status; a missing status adds none.         *)
(***************************************************************************)
\* C16: with status "ALL" the result is the one without a status parameter
\* and has no status; another non-empty status is where.status; a missing
\* status sets none.
C16_StatusAll ==
  (pc = "input" /\ ~C11_AbsentOrEmpty(inputCall.currentSearchParams)) =>
    LET params == inputCall.currentSearchParams
        where == inputCall.result
    IN /\ params.status = VStr(<<"ALL">>) =>
            /\ "status" \notin DOMAIN where
            /\ where = getAssetsWhereInput(inputCall.organizationId,
                                           [params EXCEPT !.status = VNull])
       /\ (params.status.k = "string" /\ params.status.s \notin {<<>>, <<"ALL">>}) =>
            ("status" \in DOMAIN where /\ where.status = params.status.s)
       /\ params.status = VNull => "status" \notin DOMAIN where

C16_Witness ==
  /\ pc = "input"
  /\ inputCall.currentSearchParams.k = "string"
  /\ inputCall.currentSearchParams.status = VStr(<<"ALL">>)
  /\ "categoryId" \in DOMAIN inputCall.result
  /\ "title" \in DOMAIN inputCall.result

(***************************************************************************)
(* C17.  The where input combines the filter dimensions conjunctively: an  *)
(* asset matches only if it satisfies the category, the tag, the location  *)
(* and the team-member filter, special values included.                    *)
(***************************************************************************)
\* Assets, by the columns and relations the where input reads.
C17_Assets ==
  [organizationId : Orgs,
   status : {<<"AVAILABLE">>},
   title : {<<"pen">>},
   categoryId : {VNull, VStr(<<"c1">>)},
   tags : {{}, {"t1"}},
   locationId : {VNull, VStr(<<"l1">>)},
   custody : {VNull, [teamMemberId |-> "m1", custodian |-> [userId |-> "u1"]]},
   bookings : {{}, {[custodianTeamMemberId |-> "m1", custodianUserId |-> "u1"]}}]

C17_In(value, ids) == value.k = "string" /\ includes(ids, value.s[1])

\* Prisma's reading of one key of a where input for an asset.
C17_KeyMatches(asset, key, cond) ==
  CASE key = "organizationId" -> asset.organizationId = cond
    [] key = "status" -> asset.status = cond
    [] key = "title" -> cond.contains = <<>> \/ C18_Occurs(cond.contains, asset.title)
    [] key = "categoryId" ->
         IF cond = VNull THEN asset.categoryId = VNull
         ELSE C17_In(asset.categoryId, cond.in)
    [] key = "locationId" ->
         IF cond = VNull THEN asset.locationId = VNull
         ELSE C17_In(asset.locationId, cond.in)
    [] key = "location" -> C17_In(asset.locationId, cond.id.in)
    [] key = "tags" ->
         IF "none" \in DOMAIN cond THEN asset.tags = {}
         ELSE \E t \in asset.tags : includes(cond.some.id.in, t)
    [] key = "custody" ->
         IF cond = VNull THEN asset.custody = VNull
         ELSE /\ asset.custody # VNull
              /\ IF "teamMemberId" \in DOMAIN cond
                 THEN includes(cond.teamMemberId.in, asset.custody.teamMemberId)
                 ELSE includes(cond.custodian.userId.in, asset.custody.custodian.userId)
    [] key = "bookings" ->
         \E b \in asset.bookings :
           IF "custodianTeamMemberId" \in DOMAIN cond.some
           THEN includes(cond.some.custodianTeamMemberId.in, b.custodianTeamMemberId)
           ELSE includes(cond.some.custodianUserId.in, b.custodianUserId)
    [] OTHER -> FALSE

\* All keys of the where input hold, and one element of OR when it is set.
C17_Matches(asset, where) ==
  /\ \A key \in DOMAIN where \ {"OR"} : C17_KeyMatches(asset, key, where[key])
  /\ "OR" \in DOMAIN where =>
       \E i \in 1..Len(where.OR) :
         \A key \in DOMAIN where.OR[i] : C17_KeyMatches(asset, key, where.OR[i][key])

\* The four filters as the parameters ask for them.
C17_Category(asset, ids) ==
  C17_In(asset.categoryId, ids)
  \/ (includes(ids, "uncategorized") /\ asset.categoryId = VNull)

C17_Tag(asset, ids) ==
  (\E t \in asset.tags : includes(ids, t))
  \/ (includes(ids, "untagged") /\ asset.tags = {})

C17_Location(asset, ids) ==
  C17_In(asset.locationId, ids)
  \/ (includes(ids, "without-location") /\ asset.locationId = VNull)

C17_TeamMember(asset, ids) ==
  \/ asset.custody # VNull /\ includes(ids, asset.custody.teamMemberId)
  \/ asset.custody # VNull /\ includes(ids, asset.custody.custodian.userId)
  \/ \E b \in asset.bookings :
       includes(ids, b.custodianTeamMemberId) \/ includes(ids, b.custodianUserId)
  \/ (includes(ids, "without-custody") /\ asset.custody = VNull)

\* C17: with the four dimensions supplied together, every asset the where
\* input matches satisfies each of the four filters.
C17_DimensionsConjunctive ==
  (pc = "input" /\ ~C11_AbsentOrEmpty(inputCall.currentSearchParams)) =>
    LET values == inputCall.currentSearchParams.paramsValues
    IN (/\ NonEmptyIds(values.categoriesIds) /\ NonEmptyIds(values.tagsIds)
        /\ NonEmptyIds(values.locationIds) /\ NonEmptyIds(values.teamMemberIds)) =>
         \A asset \in C17_Assets :
           C17_Matches(asset, inputCall.result) =>
             /\ C17_Category(asset, values.categoriesIds.items)
             /\ C17_Tag(asset, values.tagsIds.items)
             /\ C17_Location(asset, values.locationIds.items)
             /\ C17_TeamMember(asset, values.teamMemberIds.items)

(***************************************************************************)
(* C15.  getLocationUpdateNoteContent selects the message by case: the     *)
(* "removed" message when isRemoving is set or there is no new location,   *)
(* else the "updated" message with both locations, else the "set" message; *)
(* the message is never empty and the names are inserted trimmed.          *)
(***************************************************************************)
C15_Who(args) ==
  <<"**">> \o Trim(args.firstName) \o <<SP>> \o Trim(args.lastName) \o <<"**", SP>>

C15_What(args) == <<SP, "**">> \o Trim(args.assetName) \o <<"**", SP>>

\* The link to a location, its id trimmed or as given.
C15_Link(location, trimIds) ==
  <<"**[">> \o Trim(location.name) \o <<"](/locations/">>
  \o (IF trimIds THEN Trim(location.id) ELSE location.id) \o <<")**">>

C15_Removed(args, trimIds) ==
  C15_Who(args) \o <<"removed", SP>> \o C15_What(args) \o <<"from location", SP>>
  \o (IF args.currentLocation.k = "location"
      THEN C15_Link(args.currentLocation, trimIds) ELSE <<>>)

C15_Updated(args, trimIds) ==
  C15_Who(args) \o <<"updated the location of">> \o C15_What(args)
  \o <<"from", SP>> \o C15_Link(args.currentLocation, trimIds)
  \o <<SP, "to", SP>> \o C15_Link(args.newLocation, trimIds)

C15_Set(args, trimIds) ==
  C15_Who(args) \o <<"set the location of">> \o C15_What(args)
  \o <<"to", SP>> \o C15_Link(args.newLocation, trimIds)

\* The message selected by case; the removed message of a call without a
\* current location is given up to the location link.
C15_ByCase(args, message, trimIds) ==
  /\ message # <<>>
  /\ IF args.isRemoving = VBool(TRUE) \/ args.newLocation.k # "location"
     THEN IF args.currentLocation.k = "location"
          THEN message = C15_Removed(args, trimIds)
          ELSE IsPrefix(C15_Removed(args, trimIds), message)
     ELSE IF args.currentLocation.k = "location"
          THEN message = C15_Updated(args, trimIds)
          ELSE message = C15_Set(args, trimIds)

\* C15 as stated: the message is selected by case, it is never empty, and
\* names and ids are inserted trimmed.
C15_MessageByCaseIdsTrimmed ==
  pc = "note" => C15_ByCase(noteCall.args, noteCall.result, TRUE)

\* C15: the message is selected by case, it is never empty, names are
\* inserted trimmed and ids as they are given.
C15_MessageByCase ==
  pc = "note" => C15_ByCase(noteCall.args, noteCall.result, FALSE)

C15_Witness ==
  /\ pc = "note"
  /\ noteCall.args.isRemoving = VBool(TRUE)
  /\ noteCall.args.currentLocation = VLocation(<<"l2", SP>>, <<SP, "Main", SP, "Hall", "\t">>)
  /\ noteCall.args.newLocation.k = "location"
  /\ noteCall.args.firstName = <<SP, "Ann", SP>>
  /\ noteCall.result =
       <<"**", "Ann", SP, "Lee", "**", SP, "removed", SP, SP, "**", "Drill", "**", SP,
         "from location", SP, "**[", "Main", SP, "Hall", "](/locations/", "l2", SP,
         ")**">>

(***************************************************************************)
(* C21.  parseFilters keeps the whole value: for <operator>:<text> the     *)
(* value of a string-typed or date-typed field is the entire text after    *)
(* the first ':', also when the text holds a ':'.                          *)
(***************************************************************************)
\* The entire text that follows the first ':' of a value.
C21_AfterFirstColon(value) ==
  SubSeq(value, Len(UpToColon(value)) + 2, Len(value))

\* C21: the value parsed for a string or date field (a date not read as a
\* between list) is the entire text after the first ':'.
C21_WholeValueKept ==
  (pc = "parse" /\ ~parseCall.result.threw) =>
    \A i \in 1..Len(parseCall.pairs) :
      LET pair == parseCall.pairs[i]
          filter == parseCall.result.filters[i]
      IN (/\ C9_HasText(pair.value)
          /\ filter.type \in {"string", "date"}
          /\ ~(filter.type = "date" /\ filter.operator = <<"between">>)) =>
           filter.value = VStr(C21_AfterFirstColon(pair.value))

(***************************************************************************)
(* C22.  After the validation effect has run, the error is set exactly     *)
(* when the operator is between, both bounds are non-empty, both parse and *)
(* the start is greater than the end.                                      *)
(***************************************************************************)
\* What a bound parses to: a date for a date filter, a number for a number
\* filter; NaN when it does not parse or the filter is of another type.
C22_Parsed(type, text) ==
  CASE type = "date" -> getTime(text)
    [] type = "number" -> parseFloat(text)
    [] OTHER -> VNaN

C22_StartAfterEnd ==
  LET start == valueField.localValue[1]
      end == valueField.localValue[2]
      type == valueField.filter.type
  IN /\ valueField.filter.operator = <<"between">>
     /\ start # <<>> /\ end # <<>>
     /\ C22_Parsed(type, start) # VNaN /\ C22_Parsed(type, end) # VNaN
     /\ C22_Parsed(type, start).n > C22_Parsed(type, end).n

\* C22: once the validation effect has run, the error is set exactly when
\* the operator is between, both bounds are non-empty and parse, and the
\* start is greater than the end; otherwise it is null.
C22_ErrorIffStartAfterEnd ==
  (pc = "field" /\ ~valueField.effectPending) =>
    (valueField.error # VNull <=> C22_StartAfterEnd)

C22_Witness ==
  /\ pc = "field"
  /\ ~valueField.effectPending
  /\ valueField.edits >= 2
  /\ valueField.filter.type = "number"
  /\ valueField.localValue = <<<<"1", "0">>, <<"9">>>>
  /\ valueField.error = VStr(<<"Start value must be less than or equal to end value">>)

====
